---- MODULE Spec2Model ----
(***************************************************************************)
(* CineMetric: the evaluation engine (groq_integration.py), the Evaluate   *)
(* button handler (app.py) and the two insert helpers (database.py).       *)
(*                                                                         *)
(* Text is a sequence of symbols.  A symbol is one character, except that  *)
(* a word or fixed phrase whose inside never matters is one symbol:        *)
(*   prompts:  "{" "}" are braces, "M" is the word METRIC, "C" the word    *)
(*             CONVERSATION, "a" any other character, and each of the two  *)
(*             context labels is one symbol;                               *)
(*   replies:  "{" "}" are braces, " " is white space, "t" is a character  *)
(*             of commentary, "b" is the text of the members of a JSON     *)
(*             object (its meaning is the dict given beside the content);  *)
(*   numbers in a JSON string: "-" and digits, "h" a letter, " " a blank.  *)
(* Python's None is NoneStr; a str s is Some(s).                           *)
(***************************************************************************)
EXTENDS Integers, Sequences, FiniteSets, TLC

VARIABLES
    \* ---- prompt assembly (SpecPrompt)
    prompt_template, metric, conversation, persona_context,
    previous_turn_context, filled_prompt, assembled,
    \* ---- reply extraction (SpecParse)
    response_text, parsed, parseDone,
    \* ---- the engine in its process (Spec)
    environ, dotenv, loaded, GROQ_API_KEY, envAtLoad, last,
    \* ---- the Evaluate button handler and the database (SpecApp)
    conversations, evaluation_results, pc, selected_persona_ids,
    selected_metrics, store_conversation, saved_conversation, pi, mi,
    sessionActive, callLog, okLog, aborted, convBefore, resBefore, clicks

promptVars == <<prompt_template, metric, conversation, persona_context,
                previous_turn_context, filled_prompt, assembled>>
parseVars == <<response_text, parsed, parseDone>>
engineVars == <<environ, dotenv, loaded, GROQ_API_KEY, envAtLoad, last>>
appVars == <<conversations, evaluation_results, pc, selected_persona_ids,
             selected_metrics, store_conversation, saved_conversation, pi, mi,
             sessionActive, callLog, okLog, aborted, convBefore, resBefore,
             clicks>>
vars == <<promptVars, parseVars, engineVars, appVars>>

\* ------------------------------------------------------------------ bounds
\* Pieces a generated prompt template is made of, at most.
MaxPieces == 3
\* Symbols of a generated reply content, at most.
MaxLen == 5
\* Evaluate clicks in one run of the application model.
MaxClicks == 2

\* ------------------------------------------------------------ Python values
NoneStr == [some |-> FALSE, val |-> <<>>]
Some(s) == [some |-> TRUE, val |-> s]
\* truth value of an Optional[str]: None and "" are falsy
Truthy(o) == o.some /\ o.val # <<>>

Max(a, b) == IF a >= b THEN a ELSE b
Min(a, b) == IF a <= b THEN a ELSE b

\* s[i..] / is p a substring of s at i / anywhere
OccursAt(s, p, i) ==
    /\ i >= 1
    /\ i + Len(p) - 1 <= Len(s)
    /\ SubSeq(s, i, i + Len(p) - 1) = p
Contains(s, p) == \E i \in 1..(Len(s) + 1) : OccursAt(s, p, i)

\* --------------------------------------------------------- prompt assembly
METRIC_PLACEHOLDER == <<"{", "{", "M", "}", "}">>
CONVERSATION_PLACEHOLDER == <<"{", "{", "C", "}", "}">>
PersonaLabel == <<"\n\nPersona Profile: ">>
PreviousLabel == <<"\n\nPrevious Context: ">>

\* str.replace(old, new, 1): only the first occurrence (a faulty variant of Replace)
RECURSIVE ReplaceFirstFrom(_, _, _, _)
ReplaceFirstFrom(s, old, new, i) ==
    IF i > Len(s) THEN <<>>
    ELSE IF OccursAt(s, old, i)
         THEN new \o SubSeq(s, i + Len(old), Len(s))
         ELSE <<s[i]>> \o ReplaceFirstFrom(s, old, new, i + 1)
ReplaceFirst(s, old, new) == ReplaceFirstFrom(s, old, new, 1)

\* str.replace(old, new) for a non-empty old: the non-overlapping occurrences
\* of old, found left to right, each replaced by new; the result is not
\* scanned again.
RECURSIVE ReplaceFrom(_, _, _, _)
ReplaceFrom(s, old, new, i) ==
    IF i > Len(s) THEN <<>>
    ELSE IF OccursAt(s, old, i)
         THEN new \o ReplaceFrom(s, old, new, i + Len(old))
         ELSE <<s[i]>> \o ReplaceFrom(s, old, new, i + 1)
Replace(s, old, new) == ReplaceFrom(s, old, new, 1)

\* a faulty variant of EnhancedPrompt: the persona block is appended for any str,
\* the empty one included (a test `is not None` in place of the truth test)
EnhancedPromptIsNotNone(tmpl, pctx, prev) ==
    LET e1 == IF pctx.some THEN tmpl \o PersonaLabel \o pctx.val ELSE tmpl
    IN  IF prev.some THEN e1 \o PreviousLabel \o prev.val ELSE e1

\* lines 42-48: the template, then the two context blocks, each only when
\* its argument is truthy
EnhancedPrompt(tmpl, pctx, prev) ==
    LET e1 == IF Truthy(pctx) THEN tmpl \o PersonaLabel \o pctx.val ELSE tmpl
    IN  IF Truthy(prev) THEN e1 \o PreviousLabel \o prev.val ELSE e1

\* line 51: {{METRIC}} first, then {{CONVERSATION}} in the result of that
FilledPrompt(tmpl, m, c, pctx, prev) ==
    Replace(Replace(EnhancedPrompt(tmpl, pctx, prev), METRIC_PLACEHOLDER, m),
            CONVERSATION_PLACEHOLDER, c)

\* ------------------------------------------------------------- JSON values
\* a value json.loads can produce for a key: t is its Python type; n is the
\* int, the float in tenths (39 is 3.9), or 0/1 for a bool; s is the text of
\* a str.  Absent stands for "the key is not in the dict".
JInt(n) == [t |-> "int", n |-> n, s |-> <<>>]
JFloat(tenths) == [t |-> "float", n |-> tenths, s |-> <<>>]
JStr(s) == [t |-> "str", n |-> 0, s |-> s]
JBool(b) == [t |-> "bool", n |-> IF b THEN 1 ELSE 0, s |-> <<>>]
JNull == [t |-> "NoneType", n |-> 0, s |-> <<>>]
JInf == [t |-> "inf", n |-> 0, s |-> <<>>]
JNaN == [t |-> "nan", n |-> 0, s |-> <<>>]
Absent == [t |-> "absent", n |-> 0, s |-> <<>>]
EmptyDict == [score |-> Absent, explanation |-> Absent]

Digits == <<"0", "1", "2", "3", "4", "5", "6", "7", "8", "9">>
IsDigit(c) == \E d \in 1..10 : Digits[d] = c
DigitValue(c) == (CHOOSE d \in 1..10 : Digits[d] = c) - 1

\* str.strip(): the white space at both ends removed
RECURSIVE LStrip(_)
LStrip(s) == IF s # <<>> /\ Head(s) = " " THEN LStrip(Tail(s)) ELSE s
RECURSIVE RStrip(_)
RStrip(s) ==
    IF s # <<>> /\ s[Len(s)] = " " THEN RStrip(SubSeq(s, 1, Len(s) - 1)) ELSE s
Strip(s) == RStrip(LStrip(s))

RECURSIVE DecimalValue(_)
DecimalValue(ds) ==
    IF ds = <<>> THEN 0
    ELSE 10 * DecimalValue(SubSeq(ds, 1, Len(ds) - 1)) + DigitValue(ds[Len(ds)])

\* int(str): blanks stripped, an optional sign, then one or more digits;
\* anything else is ValueError
IntOfStr(s) ==
    LET u == Strip(s)
        neg == u # <<>> /\ Head(u) = "-"
        ds == IF u # <<>> /\ Head(u) \in {"-", "+"} THEN Tail(u) ELSE u
    IN  IF ds # <<>> /\ \A i \in 1..Len(ds) : IsDigit(ds[i])
        THEN [ok |-> TRUE, n |-> IF neg THEN -DecimalValue(ds) ELSE DecimalValue(ds),
              exc |-> "none"]
        ELSE [ok |-> FALSE, n |-> 0, exc |-> "ValueError"]

\* int(float): the fraction dropped, toward zero
TruncFloat(tenths) ==
    IF tenths >= 0 THEN tenths \div 10 ELSE -((-tenths) \div 10)

\* line 103, int(result["score"]): the value or the exception int() raises
IntOf(v) ==
    CASE v.t \in {"int", "bool"} -> [ok |-> TRUE, n |-> v.n, exc |-> "none"]
      [] v.t = "float" -> [ok |-> TRUE, n |-> TruncFloat(v.n), exc |-> "none"]
      [] v.t = "str" -> IntOfStr(v.s)
      [] v.t = "nan" -> [ok |-> FALSE, n |-> 0, exc |-> "ValueError"]
      [] v.t = "inf" -> [ok |-> FALSE, n |-> 0, exc |-> "OverflowError"]
      [] OTHER -> [ok |-> FALSE, n |-> 0, exc |-> "TypeError"]

\* a faulty variant of ClampScore: the upper limit only
ClampScoreUpperOnly(n) == Min(10, n)

\* line 103: max(0, min(10, n))
ClampScore(n) == Max(0, Min(10, n))

\* ----------------------------------------------------------- reply parsing
\* a faulty variant of ReSearch: the lazy pattern \{[\s\S]*?\}, which stops at the
\* first closing brace
ReSearchLazy(s) ==
    LET starts == {i \in 1..Len(s) : s[i] = "{" /\ \E j \in (i + 1)..Len(s) : s[j] = "}"}
    IN  IF starts = {} THEN [found |-> FALSE, text |-> <<>>]
        ELSE LET b == CHOOSE i \in starts : \A k \in starts : i <= k
                 e == CHOOSE j \in (b + 1)..Len(s) :
                        /\ s[j] = "}"
                        /\ \A k \in (b + 1)..Len(s) : s[k] = "}" => j <= k
             IN  [found |-> TRUE, text |-> SubSeq(s, b, e)]

\* line 92, re.search(r'\{[\s\S]*\}', s): the leftmost position where the
\* pattern matches (an opening brace with a closing brace somewhere after
\* it), and from there the longest match (up to the last closing brace)
ReSearch(s) ==
    LET starts == {i \in 1..Len(s) : s[i] = "{" /\ \E j \in (i + 1)..Len(s) : s[j] = "}"}
    IN  IF starts = {} THEN [found |-> FALSE, text |-> <<>>]
        ELSE LET b == CHOOSE i \in starts : \A k \in starts : i <= k
                 e == CHOOSE j \in (b + 1)..Len(s) :
                        /\ s[j] = "}"
                        /\ \A k \in (b + 1)..Len(s) : s[k] = "}" => k <= j
             IN  [found |-> TRUE, text |-> SubSeq(s, b, e)]

\* line 96, json.loads(text) for a text that starts with "{" and ends with
\* "}": an object is the braces around white space and at most one members
\* text "b", whose dict is `members`; any other text is a JSONDecodeError
JsonLoads(text, members) ==
    LET inner == SubSeq(text, 2, Len(text) - 1)
        bs == {i \in 1..Len(inner) : inner[i] = "b"}
    IN  IF /\ \A i \in 1..Len(inner) : inner[i] \in {" ", "b"}
           /\ Cardinality(bs) <= 1
        THEN [ok |-> TRUE, obj |-> IF bs = {} THEN EmptyDict ELSE members]
        ELSE [ok |-> FALSE, obj |-> EmptyDict]

\* ------------------------------------------------------ the provider's reply
\* What requests.post gives the call: post is "response", or the exception
\* it raises; status, body, content and members describe the response.  body
\* is "content" (choices[0].message.content is the str `content`),
\* "notjson" (the body is no JSON), "nochoices" (an object without the key),
\* "emptychoices" (choices is []) or "nullcontent" (content is null).
\* newRequests tells whether response.json() raises requests' JSONDecodeError
\* (a RequestException, requests >= 2.27) or a plain ValueError.
Reply(status, body, content, members, newRequests) ==
    [post |-> "response", status |-> status, body |-> body, content |-> content,
     members |-> members, newRequests |-> newRequests]
PostRaises(exc) ==
    [post |-> exc, status |-> 0, body |-> "none", content |-> <<>>,
     members |-> EmptyDict, newRequests |-> TRUE]
ContentReply(content, members) == Reply(200, "content", content, members, TRUE)

\* exception classes: the subclasses of requests.exceptions.RequestException
\* and the classes the second except clause names (JSONDecodeError is a
\* ValueError)
RequestExceptions ==
    {"ConnectionError", "Timeout", "HTTPError", "requests.JSONDecodeError"}
ParseExceptions == {"JSONDecodeError", "KeyError", "ValueError"}

Raised(exc, text) ==
    [raised |-> TRUE, exc |-> exc, text |-> text, score |-> -1,
     explanation |-> Absent, json_text |-> NoneStr]
Returned(score, explanation, jtext) ==
    [raised |-> FALSE, exc |-> "none", text |-> "", score |-> score,
     explanation |-> explanation, json_text |-> Some(jtext)]

\* lines 92-108: the content of the reply to the result, or the exception
\* raised on the way
ParseContent(content, members) ==
    LET response_text_ == Strip(content)
        json_match == ReSearch(response_text_)
        loaded_ == JsonLoads(json_match.text, members)
        result == loaded_.obj
        n == IntOf(result.score)
    IN  IF ~json_match.found
        THEN Raised("ValueError", "No JSON object found in response")
        ELSE IF ~loaded_.ok
        THEN [Raised("JSONDecodeError", "Expecting property name")
                 EXCEPT !.json_text = Some(json_match.text)]
        ELSE IF result.score = Absent \/ result.explanation = Absent
        THEN [Raised("ValueError", "Response missing required fields")
                 EXCEPT !.json_text = Some(json_match.text)]
        ELSE IF ~n.ok
        THEN [Raised(n.exc, "int() cannot convert the score")
                 EXCEPT !.json_text = Some(json_match.text)]
        ELSE Returned(ClampScore(n.n), result.explanation, json_match.text)

\* lines 84-108, the try block: requests.post, raise_for_status (4xx and 5xx
\* raise HTTPError), response.json(), data["choices"][0]["message"]["content"]
\* .strip(), then ParseContent
TryBlock(net) ==
    IF net.post # "response" THEN Raised(net.post, "the request did not complete")
    ELSE IF net.status >= 400 /\ net.status < 600
    THEN Raised("HTTPError", "error status")
    ELSE IF net.body = "notjson"
    THEN Raised(IF net.newRequests THEN "requests.JSONDecodeError" ELSE "ValueError",
                "Expecting value")
    ELSE IF net.body = "nochoices" THEN Raised("KeyError", "'choices'")
    ELSE IF net.body = "emptychoices"
    THEN Raised("IndexError", "list index out of range")
    ELSE IF net.body = "nullcontent"
    THEN Raised("AttributeError", "'NoneType' object has no attribute 'strip'")
    ELSE ParseContent(net.content, net.members)

\* The result of one invocation.  raised/exc say how it ended; msg is the
\* text the except clause puts before the cause ("" when the exception is
\* not one it wraps), cause the text of the underlying exception; posts the
\* number of requests.post calls made, auth the credential in the
\* Authorization header, user the content of the user message.
Outcome(r, msg, posts, auth, user) ==
    [raised |-> r.raised, exc |-> IF r.raised /\ msg # "" THEN "Exception" ELSE r.exc,
     msg |-> msg, cause |-> r.text, score |-> r.score,
     explanation |-> r.explanation, json_text |-> r.json_text,
     posts |-> posts, auth |-> auth, user |-> user]

\* lines 82-113: the try block and its two except clauses; an exception
\* neither clause names leaves the function as it is
CallApi(key, user, net) ==
    LET r == TryBlock(net)
    IN  IF ~r.raised THEN Outcome(r, "", 1, key, user)
        ELSE IF r.exc \in RequestExceptions
        THEN Outcome(r, "Groq API request failed: ", 1, key, user)
        ELSE IF r.exc \in ParseExceptions
        THEN Outcome(r, "Failed to parse Groq API response: ", 1, key, user)
        ELSE Outcome(r, "", 1, key, user)

\* a faulty variant of KeyMissing: a test `is None`, which lets "" through
KeyIsNone(key) == ~key.some

\* line 38, `not GROQ_API_KEY`
KeyMissing(key) == ~Truthy(key)

\* lines 18-113, evaluate_conversation with the module's GROQ_API_KEY = key
EvaluateConversation(key, tmpl, m, c, pctx, prev, net) ==
    IF KeyMissing(key)
    THEN Outcome(Raised("ValueError", "GROQ_API_KEY environment variable is not set"),
                 "", 0, NoneStr, <<>>)
    ELSE CallApi(key, FilledPrompt(tmpl, m, c, pctx, prev), net)

\* ------------------------------------------------------------- idle states
\* each specification leaves the variables of the others at these values
NoOutcome == Outcome(Raised("none", ""), "", 0, NoneStr, <<>>)
NoCall ==
    [called |-> FALSE, envAtCall |-> NoneStr, net |-> PostRaises("none"),
     res |-> NoOutcome]

PromptIdle ==
    /\ prompt_template = <<>> /\ metric = <<>> /\ conversation = <<>>
    /\ persona_context = NoneStr /\ previous_turn_context = NoneStr
    /\ filled_prompt = <<>> /\ assembled = FALSE
ParseIdle == response_text = <<>> /\ parsed = NoOutcome /\ parseDone = FALSE
EngineIdle ==
    /\ environ = NoneStr /\ dotenv = NoneStr /\ loaded = FALSE
    /\ GROQ_API_KEY = NoneStr /\ envAtLoad = NoneStr /\ last = NoCall
AppIdle ==
    /\ conversations = <<>> /\ evaluation_results = <<>> /\ pc = "idle"
    /\ selected_persona_ids = <<>> /\ selected_metrics = <<>>
    /\ store_conversation = FALSE /\ saved_conversation = 0
    /\ pi = 1 /\ mi = 1 /\ sessionActive = TRUE /\ callLog = <<>>
    /\ okLog = <<>> /\ aborted = FALSE /\ convBefore = 0 /\ resBefore = 0
    /\ clicks = 0

\* ============================================================== SpecPrompt
\* Prompt assembly on its own: the arguments are drawn, then lines 42-51 run.
RECURSIVE Flatten(_)
Flatten(ps) == IF ps = <<>> THEN <<>> ELSE Head(ps) \o Flatten(Tail(ps))

Pieces ==
    {<<"a">>, <<"{", "{">>, <<"}", "}">>, METRIC_PLACEHOLDER,
     CONVERSATION_PLACEHOLDER}
Templates ==
    {Flatten(ps) : ps \in UNION {[1..k -> Pieces] : k \in 0..MaxPieces}}
PromptMetrics ==
    {<<"a">>, <<"M">>, METRIC_PLACEHOLDER, CONVERSATION_PLACEHOLDER}
PromptConversations ==
    {<<"a", "a">>, METRIC_PLACEHOLDER, CONVERSATION_PLACEHOLDER}
PersonaContexts == {NoneStr, Some(<<>>), Some(<<"a">>), Some(METRIC_PLACEHOLDER)}
PreviousContexts == {NoneStr, Some(<<"a">>), Some(CONVERSATION_PLACEHOLDER)}

InitPrompt ==
    /\ prompt_template \in Templates
    /\ metric \in PromptMetrics
    /\ conversation \in PromptConversations
    /\ persona_context \in PersonaContexts
    /\ previous_turn_context \in PreviousContexts
    /\ filled_prompt = <<>>
    /\ assembled = FALSE
    /\ ParseIdle /\ EngineIdle /\ AppIdle

AssemblePrompt ==
    /\ ~assembled
    /\ filled_prompt' = FilledPrompt(prompt_template, metric, conversation,
                                     persona_context, previous_turn_context)
    /\ assembled' = TRUE
    /\ UNCHANGED <<prompt_template, metric, conversation, persona_context,
                   previous_turn_context, parseVars, engineVars, appVars>>

NextPrompt == AssemblePrompt
SpecPrompt == InitPrompt /\ [][NextPrompt]_vars

IsBrace(c) == c \in {"{", "}"}
NoBraces(s) == \A i \in 1..Len(s) : ~IsBrace(s[i])
\* every brace of s is inside an occurrence of one of the two placeholders
BracesOnlyInPlaceholders(s) ==
    \A i \in 1..Len(s) :
        IsBrace(s[i]) =>
            \E j \in (i - 4)..i :
                \/ OccursAt(s, METRIC_PLACEHOLDER, j)
                \/ OccursAt(s, CONVERSATION_PLACEHOLDER, j)
HasBothPlaceholders(s) ==
    Contains(s, METRIC_PLACEHOLDER) /\ Contains(s, CONVERSATION_PLACEHOLDER)
HasNoPlaceholder(s) ==
    ~Contains(s, METRIC_PLACEHOLDER) /\ ~Contains(s, CONVERSATION_PLACEHOLDER)
C3_Conclusion ==
    /\ HasNoPlaceholder(filled_prompt)
    /\ Contains(filled_prompt, metric)
    /\ Contains(filled_prompt, conversation)

\* C3 as claimed: for any template with both placeholders and any metric,
\* conversation and context strings, the filled prompt holds neither
\* placeholder and holds the metric and the conversation verbatim.
C3_AsClaimed ==
    (assembled /\ HasBothPlaceholders(prompt_template)) => C3_Conclusion

\* C3 (amended): the same, for a template and context strings whose braces
\* all belong to placeholder tokens and a metric and a conversation without
\* braces.
C3_FilledPrompt ==
    ( /\ assembled
      /\ HasBothPlaceholders(prompt_template)
      /\ BracesOnlyInPlaceholders(prompt_template)
      /\ BracesOnlyInPlaceholders(persona_context.val)
      /\ BracesOnlyInPlaceholders(previous_turn_context.val)
      /\ NoBraces(metric) /\ NoBraces(conversation) ) => C3_Conclusion

C3_Witness ==
    /\ assembled
    /\ prompt_template =
         METRIC_PLACEHOLDER \o METRIC_PLACEHOLDER \o CONVERSATION_PLACEHOLDER
    /\ persona_context = Some(METRIC_PLACEHOLDER)
    /\ previous_turn_context = Some(<<"a">>)
    /\ metric = <<"M">> /\ conversation = <<"a", "a">>
    /\ filled_prompt =
         <<"M", "M", "a", "a">> \o PersonaLabel \o <<"M">> \o PreviousLabel \o <<"a">>

\* the context blocks as the claim words them
ContextBlocks(pctx, prev) ==
    (IF Truthy(pctx) THEN PersonaLabel \o pctx.val ELSE <<>>)
        \o (IF Truthy(prev) THEN PreviousLabel \o prev.val ELSE <<>>)

\* C4 as claimed: for any template with neither placeholder the filled
\* prompt is the template followed by the context blocks as supplied, for
\* every metric, conversation and context string.
C4_AsClaimed ==
    (assembled /\ HasNoPlaceholder(prompt_template)) =>
        filled_prompt =
            prompt_template \o ContextBlocks(persona_context, previous_turn_context)

\* C4 (amended): the same, when neither context string holds a placeholder
\* token; a block is appended for a context that is given and not empty.
C4_PassThrough ==
    ( /\ assembled
      /\ HasNoPlaceholder(prompt_template)
      /\ HasNoPlaceholder(persona_context.val)
      /\ HasNoPlaceholder(previous_turn_context.val) ) =>
        filled_prompt =
            prompt_template \o ContextBlocks(persona_context, previous_turn_context)

C4_Witness ==
    /\ assembled
    /\ prompt_template = <<"a", "{", "{", "}", "}">>
    /\ persona_context = Some(<<"a">>)
    /\ previous_turn_context = Some(<<"a">>)
    /\ metric = METRIC_PLACEHOLDER
    /\ filled_prompt =
         <<"a", "{", "{", "}", "}">> \o PersonaLabel \o <<"a">> \o PreviousLabel \o <<"a">>

\* =============================================================== SpecParse
\* Reply handling on its own: every content of at most MaxLen symbols, in a
\* 200 response, with the members text standing for
\* "score": 15, "explanation": "x".
ReplySymbols == {"{", "}", " ", "t", "b"}
ReplyContents == UNION {[1..k -> ReplySymbols] : k \in 0..MaxLen}
ExampleMembers == [score |-> JInt(15), explanation |-> JStr(<<"x">>)]
ParseKey == Some(<<"k1">>)

InitParse ==
    /\ response_text \in ReplyContents
    /\ parsed = NoOutcome
    /\ parseDone = FALSE
    /\ PromptIdle /\ EngineIdle /\ AppIdle

HandleReply ==
    /\ ~parseDone
    /\ parsed' = CallApi(ParseKey, <<>>, ContentReply(response_text, ExampleMembers))
    /\ parseDone' = TRUE
    /\ UNCHANGED <<response_text, promptVars, engineVars, appVars>>

NextParse == HandleReply
SpecParse == InitParse /\ [][NextParse]_vars

FirstOpen(s) == CHOOSE i \in 1..Len(s) : s[i] = "{" /\ \A k \in 1..(i - 1) : s[k] # "{"
LastClose(s) ==
    CHOOSE j \in 1..Len(s) : s[j] = "}" /\ \A k \in (j + 1)..Len(s) : s[k] # "}"
HasBracePair(s) == \E i, j \in 1..Len(s) : i < j /\ s[i] = "{" /\ s[j] = "}"

\* C5: the text given to json.loads is the trimmed content from its first
\* "{" to its last "}"; a content with no "{" followed later by a "}" makes
\* the call fail with "No JSON object found in response", without a result.
C5_FirstToLastBrace ==
    parseDone =>
        LET s == Strip(response_text)
        IN  IF HasBracePair(s)
            THEN parsed.json_text = Some(SubSeq(s, FirstOpen(s), LastClose(s)))
            ELSE /\ parsed.raised
                 /\ parsed.msg = "Failed to parse Groq API response: "
                 /\ parsed.cause = "No JSON object found in response"
                 /\ parsed.json_text = NoneStr
                 /\ parsed.score = -1

\* commentary on both sides of the object, and a score of 15 clamped to 10
C5_Witness ==
    /\ parseDone
    /\ response_text = <<"t", "{", "b", "}", "t">>
    /\ parsed.json_text = Some(<<"{", "b", "}">>)
    /\ ~parsed.raised /\ parsed.score = 10

\* ==================================================================== Spec
\* The engine in its process: the environment, the import of the module
\* (lines 10-13) and invocations of evaluate_conversation.
K1 == Some(<<"k1">>)
K2 == Some(<<"k2">>)
KFile == Some(<<"kf">>)
EnvValues == {NoneStr, Some(<<>>), K1, K2}
DotenvValues == {NoneStr, KFile}

ScoreValues ==
    {JInt(7), JInt(15), JInt(-4), JFloat(39), JFloat(-5), JStr(<<"7">>),
     JStr(<<" ", "-", "4">>), JStr(<<"h">>), JBool(TRUE), JNull, JInf, JNaN,
     Absent}
ExplanationValues == {JStr(<<"o", "k">>), JStr(<<>>), JNull, Absent}
MembersValues ==
    {[score |-> s, explanation |-> e] : s \in ScoreValues, e \in ExplanationValues}

Replies ==
    {ContentReply(<<"{", "b", "}">>, m) : m \in MembersValues}
    \cup {ContentReply(c, ExampleMembers) :
            c \in {<<"t", " ", "{", "b", "}", " ", "t">>, <<" ", "{", "b", "}", " ">>}}
    \cup {ContentReply(c, EmptyDict) :
            c \in {<<"t">>, <<"}", "t", "{">>, <<"{", "t", "}">>, <<"{", " ", "}">>,
                   <<"{", "}", "{", "}">>}}
    \cup {Reply(200, b, <<>>, EmptyDict, TRUE) :
            b \in {"notjson", "nochoices", "emptychoices", "nullcontent"}}
    \cup {Reply(200, "notjson", <<>>, EmptyDict, FALSE)}
    \cup {Reply(st, "notjson", <<>>, EmptyDict, TRUE) : st \in {404, 500}}
    \cup {PostRaises(e) : e \in {"ConnectionError", "Timeout"}}

EngineTemplates ==
    {METRIC_PLACEHOLDER \o <<"a">> \o CONVERSATION_PLACEHOLDER, <<"a">>}
EngineMetric == <<"M">>
EngineConversation == <<"a", "a">>

Init ==
    /\ environ \in EnvValues
    /\ dotenv \in DotenvValues
    /\ loaded = FALSE
    /\ GROQ_API_KEY = NoneStr
    /\ envAtLoad = NoneStr
    /\ last = NoCall
    /\ PromptIdle /\ ParseIdle /\ AppIdle

\* the process environment is changed from outside the module
SetEnv ==
    /\ \E v \in EnvValues : v # environ /\ environ' = v
    /\ UNCHANGED <<dotenv, loaded, GROQ_API_KEY, envAtLoad, last,
                   promptVars, parseVars, appVars>>

\* lines 11-13, run once when the module is imported: load_dotenv() sets the
\* variable from the .env file when the environment does not have it, then
\* os.getenv reads it into the module's GROQ_API_KEY
ImportModule ==
    /\ ~loaded
    /\ environ' = IF ~environ.some /\ dotenv.some THEN dotenv ELSE environ
    /\ GROQ_API_KEY' = environ'
    /\ envAtLoad' = environ'
    /\ loaded' = TRUE
    /\ UNCHANGED <<dotenv, last, promptVars, parseVars, appVars>>

\* a faulty variant of CredentialAtCall: os.getenv inside the function
CredentialFromEnviron == environ

\* lines 38 and 68: the function reads the module's global
CredentialAtCall == GROQ_API_KEY

Evaluate ==
    /\ loaded
    /\ \E net \in Replies, tmpl \in EngineTemplates :
         last' = [called |-> TRUE, envAtCall |-> environ, net |-> net,
                  res |-> EvaluateConversation(CredentialAtCall, tmpl, EngineMetric,
                                               EngineConversation, NoneStr, NoneStr,
                                               net)]
    /\ UNCHANGED <<environ, dotenv, loaded, GROQ_API_KEY, envAtLoad,
                   promptVars, parseVars, appVars>>

Next == SetEnv \/ ImportModule \/ Evaluate
Spec == Init /\ [][Next]_vars

ConfigMessage == "GROQ_API_KEY environment variable is not set"
IsConfigurationError(r) ==
    r.raised /\ r.exc = "ValueError" /\ r.cause = ConfigMessage /\ r.posts = 0
IsTransportError(r) ==
    r.raised /\ r.exc = "Exception" /\ r.msg = "Groq API request failed: "
IsResponseFormatError(r) ==
    r.raised /\ r.exc = "Exception" /\ r.msg = "Failed to parse Groq API response: "

\* C1: a returned score is an integer in [0,10], equal to
\* min(10, max(0, int(s))) for the reply's score s: 15 gives 10, -4 gives 0,
\* 7 gives 7, and out-of-range scores are clamped, not rejected.
C1_ScoreClamped ==
    (last.called /\ ~last.res.raised) =>
        LET s == last.net.members.score
            score == last.res.score
        IN  /\ score \in 0..10
            /\ s.t \in {"int", "bool"} => score = Min(10, Max(0, s.n))
            /\ s.t = "float" =>
                   /\ 10 * score <= Max(0, s.n)
                   /\ score = 10 \/ s.n < 10 * (score + 1)
            /\ s = JStr(<<"7">>) => score = 7
            /\ s = JStr(<<" ", "-", "4">>) => score = 0
            /\ s.t \in {"int", "float", "bool", "str"}

C1_Witness ==
    /\ last.called /\ ~last.res.raised
    /\ last.net.members.score = JInt(-4)
    /\ last.res.score = 0

\* C2: when the credential is not configured (the module's GROQ_API_KEY is
\* None or empty) the call fails with the missing-credential error and makes
\* no HTTP call, whatever the arguments and whatever the network would do.
C2_NoCredentialNoRequest ==
    (last.called /\ ~Truthy(GROQ_API_KEY)) =>
        /\ IsConfigurationError(last.res)
        /\ last.res.posts = 0
        /\ last.res.auth = NoneStr

C2_Witness ==
    /\ last.called
    /\ GROQ_API_KEY = Some(<<>>)
    /\ last.net.post = "response" /\ last.net.body = "content"
    /\ last.res.raised /\ last.res.posts = 0

\* C6 as claimed: every returned result has an explanation that is a
\* non-empty string, the reply's value passed through, and a score in
\* [0,10].
C6_AsClaimed ==
    (last.called /\ ~last.res.raised) =>
        /\ last.res.explanation.t = "str"
        /\ last.res.explanation.s # <<>>
        /\ last.res.explanation = last.net.members.explanation
        /\ last.res.score \in 0..10

\* C7 as claimed: every invocation returns a result or fails with one error
\* of the taxonomy (configuration, transport, response format); a failed
\* request never yields a result, and at most one request is made.
C7_AsClaimed ==
    last.called =>
        /\ \/ ~last.res.raised
           \/ IsConfigurationError(last.res)
           \/ IsTransportError(last.res)
           \/ IsResponseFormatError(last.res)
        /\ last.res.posts <= 1
        /\ (last.net.post # "response" \/ last.net.status >= 400) => last.res.raised

\* C8 as claimed: the outcome of a call follows the configuration's value at
\* the moment of the call.
C8_AsClaimed ==
    last.called =>
        /\ IsConfigurationError(last.res) <=> ~Truthy(last.envAtCall)
        /\ last.res.posts = 1 => last.res.auth = last.envAtCall

\* C8 (amended): the credential is read from the configuration once, when
\* the module is imported; every later call fails with the missing-credential
\* error, or sends a credential, according to that value, whatever the
\* configuration holds at the moment of the call, and no call changes it.
C8_CredentialAtImport ==
    /\ loaded => GROQ_API_KEY = envAtLoad
    /\ last.called =>
        /\ IsConfigurationError(last.res) <=> ~Truthy(envAtLoad)
        /\ last.res.posts = 1 => last.res.auth = envAtLoad

\* the credential was removed after the import, and the call still sends it
C8_Witness ==
    /\ last.called
    /\ envAtLoad = K1
    /\ last.envAtCall = NoneStr
    /\ last.res.posts = 1 /\ last.res.auth = K1

\* ================================================================= SpecApp
\* One script run of app.py in which the Evaluate button was pressed with
\* non-empty selections (the button is disabled otherwise, line 144), over
\* the tables of database.py.  The database is reachable; an insert fails
\* only on a constraint the schema declares.
\*
\* sessionActive is the state of the SQLAlchemy Session `db` of the run
\* (app.py line 55): a commit whose flush fails leaves the session's
\* transaction inactive and its objects expired until Session.rollback(),
\* which the application never calls; every later statement on that
\* session, the reload of an expired attribute included, raises.
PersonaTemplate(id) ==
    IF id = 1 THEN METRIC_PLACEHOLDER \o <<"a">> \o CONVERSATION_PLACEHOLDER
    ELSE <<"a">> \o METRIC_PLACEHOLDER
\* line 169: f"{persona.name}: {persona.description}"
PersonaContextOf(id) == Some(<<"a">>)
PersonaSelections == {<<1>>, <<2>>, <<1, 2>>}
MetricSelections ==
    {<<"Empathy">>, <<"Clarity">>, <<"Empathy", "Clarity">>, <<"Clarity", "Empathy">>}
ConversationText == <<"a", "a">>
AppReplies ==
    {ContentReply(<<"{", "b", "}">>, [score |-> JInt(7), explanation |-> JStr(<<"o", "k">>)]),
     ContentReply(<<"{", "b", "}">>, [score |-> JInt(15), explanation |-> JNull]),
     ContentReply(<<"t">>, EmptyDict),
     PostRaises("Timeout")}

\* database.py lines 100-110: the new row gets the next id
CreateConversation(rows, content, multi) ==
    Append(rows, [id |-> Len(rows) + 1, content |-> content, is_multi_turn |-> multi])

\* database.py lines 113-126 with the columns of lines 59-64: the commit
\* fails when explanation is NULL (nullable=False)
InsertFails(explanation) == explanation.t = "NoneType"
CreateEvaluationResult(rows, conversation_id, persona_id, m, score, explanation) ==
    Append(rows, [id |-> Len(rows) + 1, conversation_id |-> conversation_id,
                  persona_id |-> persona_id, metric |-> m, score |-> score,
                  explanation |-> explanation])

InitApp ==
    /\ AppIdle
    /\ loaded = TRUE
    /\ GROQ_API_KEY \in {NoneStr, K1}
    /\ envAtLoad = GROQ_API_KEY /\ environ = GROQ_API_KEY
    /\ dotenv = NoneStr /\ last = NoCall
    /\ PromptIdle /\ ParseIdle

\* lines 55 and 144-160: a fresh session, the click, and the conversation row
ClickEvaluate ==
    /\ pc = "idle"
    /\ clicks < MaxClicks
    /\ \E ps \in PersonaSelections, ms \in MetricSelections, store \in BOOLEAN :
         /\ selected_persona_ids' = ps
         /\ selected_metrics' = ms
         /\ store_conversation' = store
         /\ conversations' =
              IF store THEN CreateConversation(conversations, ConversationText, FALSE)
              ELSE conversations
         /\ saved_conversation' = IF store THEN Len(conversations) + 1 ELSE 0
    /\ sessionActive' = TRUE
    /\ convBefore' = Len(conversations)
    /\ resBefore' = Len(evaluation_results)
    /\ callLog' = <<>> /\ okLog' = <<>> /\ aborted' = FALSE
    /\ pi' = 1 /\ mi' = 1
    /\ pc' = "persona"
    /\ clicks' = clicks + 1
    /\ UNCHANGED <<evaluation_results, promptVars, parseVars, engineVars>>

\* line 164, get_persona_by_id on an active session
LookupPersona ==
    /\ pc = "persona"
    /\ sessionActive
    /\ pc' = "metric"
    /\ mi' = 1
    /\ UNCHANGED <<conversations, evaluation_results, selected_persona_ids,
                   selected_metrics, store_conversation, saved_conversation, pi,
                   sessionActive, callLog, okLog, aborted, convBefore, resBefore,
                   clicks, promptVars, parseVars, engineVars>>

\* line 164 on an inactive session: the query raises outside the try, and
\* the script run ends there
LookupPersonaRaises ==
    /\ pc = "persona"
    /\ ~sessionActive
    /\ pc' = "idle"
    /\ aborted' = TRUE
    /\ UNCHANGED <<conversations, evaluation_results, selected_persona_ids,
                   selected_metrics, store_conversation, saved_conversation, pi,
                   mi, sessionActive, callLog, okLog, convBefore, resBefore,
                   clicks, promptVars, parseVars, engineVars>>

\* where the two loops of lines 163 and 172 go after this pair
Advance ==
    IF mi < Len(selected_metrics) THEN mi' = mi + 1 /\ pi' = pi /\ pc' = "metric"
    ELSE IF pi < Len(selected_persona_ids)
    THEN mi' = 1 /\ pi' = pi + 1 /\ pc' = "persona"
    ELSE mi' = mi /\ pi' = pi /\ pc' = "idle"

\* lines 172-206, one pass of the inner loop on an active session: the
\* call, the display, the insert when a conversation was saved, and the
\* except clause
EvaluatePair ==
    /\ pc = "metric"
    /\ sessionActive
    /\ \E net \in AppReplies :
         LET persona_id == selected_persona_ids[pi]
             m == selected_metrics[mi]
             result == EvaluateConversation(GROQ_API_KEY, PersonaTemplate(persona_id),
                                            <<m>>, ConversationText,
                                            PersonaContextOf(persona_id), NoneStr, net)
             stores == ~result.raised /\ saved_conversation # 0
             fails == stores /\ InsertFails(result.explanation)
         IN  /\ callLog' = Append(callLog, [persona_id |-> persona_id, metric |-> m])
             /\ okLog' =
                  IF result.raised THEN okLog
                  ELSE Append(okLog, [persona_id |-> persona_id, metric |-> m,
                                      score |-> result.score,
                                      explanation |-> result.explanation])
             /\ evaluation_results' =
                  IF stores /\ ~fails
                  THEN CreateEvaluationResult(evaluation_results, saved_conversation,
                                              persona_id, m, result.score,
                                              result.explanation)
                  ELSE evaluation_results
             /\ sessionActive' = ~fails
    /\ Advance
    /\ UNCHANGED <<conversations, selected_persona_ids, selected_metrics,
                   store_conversation, saved_conversation, aborted, convBefore,
                   resBefore, clicks, promptVars, parseVars, engineVars>>

\* lines 172-206 on an inactive session: reading persona.prompt_template for
\* the call (line 176) reloads the expired persona and raises inside the
\* try; the except clause reports it and the loop goes on without a call
EvaluatePairSessionInactive ==
    /\ pc = "metric"
    /\ ~sessionActive
    /\ Advance
    /\ UNCHANGED <<conversations, evaluation_results, selected_persona_ids,
                   selected_metrics, store_conversation, saved_conversation,
                   sessionActive, callLog, okLog, aborted, convBefore, resBefore,
                   clicks, promptVars, parseVars, engineVars>>

NextApp ==
    \/ ClickEvaluate
    \/ LookupPersona
    \/ LookupPersonaRaises
    \/ EvaluatePair
    \/ EvaluatePairSessionInactive
SpecApp == InitApp /\ [][NextApp]_vars

RunOver == pc = "idle" /\ clicks > 0
\* the selected pairs, persona by persona
SelectedPairs ==
    LET nm == Len(selected_metrics)
    IN  [k \in 1..(Len(selected_persona_ids) * nm) |->
            [persona_id |-> selected_persona_ids[((k - 1) \div nm) + 1],
             metric |-> selected_metrics[((k - 1) % nm) + 1]]]

\* C9 as claimed: a click evaluates every selected (persona, metric) pair
\* once, persona by persona, whatever fails for any one pair.
C9_AsClaimed == RunOver => callLog = SelectedPairs

NewResults == SubSeq(evaluation_results, resBefore + 1, Len(evaluation_results))
\* C10 as claimed: with saving on, one conversation row per click, there
\* before the first call, and one result row for each pair whose evaluation
\* succeeded, with the conversation's id, the persona, the metric and the
\* score; with saving off, no row at all.
C10_AsClaimed ==
    /\ (clicks > 0 /\ store_conversation) =>
          /\ Len(conversations) = convBefore + 1
          /\ saved_conversation = conversations[Len(conversations)].id
    /\ (clicks > 0 /\ ~store_conversation) =>
          /\ Len(conversations) = convBefore
          /\ NewResults = <<>>
    /\ (RunOver /\ store_conversation) =>
          /\ Len(NewResults) = Len(okLog)
          /\ \A k \in 1..Len(okLog) :
                /\ NewResults[k].conversation_id = saved_conversation
                /\ NewResults[k].persona_id = okLog[k].persona_id
                /\ NewResults[k].metric = okLog[k].metric
                /\ NewResults[k].score = okLog[k].score
                /\ NewResults[k].score \in 0..10

====
